---- MODULE Spec2Model ----
(***************************************************************************)
(* The ws_heartbeat Caddy handler (package wsheartbeat): Provision,        *)
(* ServeHTTP, proxyWebSocket and handlePing, as a state machine.           *)
(*                                                                         *)
(* One handler instance m serves a set of sessions.  A session is one      *)
(* invocation of ServeHTTP together with the goroutines it starts: the     *)
(* heartbeat task (handlePing) and the two relay tasks (proxyWebSocket     *)
(* client->backend and backend->client).  The peers (the websocket client, *)
(* the backend, the ticker, the next handler) are the environment.         *)
(*                                                                         *)
(* The repository holds two copies of the handler.  The first copy         *)
(* (part_002) dials the backend, then upgrades the client; its steps are   *)
(* the actions of Next.  The second copy (part_003) upgrades and registers *)
(* the client first and dials afterwards; its steps are the actions named  *)
(* Second..., and NextSecond is its next-state relation.  proxyWebSocket,  *)
(* handlePing and the join at the end of ServeHTTP are the same code in    *)
(* both copies and are modelled once.                                      *)
(***************************************************************************)
EXTENDS Integers, Sequences, FiniteSets, TLC

\* ------------------------------------------------------------------ bounds
\* Messages the two peers of one session may send in total.
MaxMsgs == 2
\* Ticks the ticker of one heartbeat task may deliver.
MaxTicks == 2

\* ------------------------------------------------------------- the universe
\* Session identifiers.  A session's identifier also stands for the pointer
\* identity of its client connection, the key of m.connections.
AllSessions == {"s1", "s2"}

Ends == {"client", "backend"}
Dirs == {"c2b", "b2c"}

\* proxyWebSocket(src, dst, errCh): the two instantiations ServeHTTP starts.
Src(d) == IF d = "c2b" THEN "client" ELSE "backend"
Dst(d) == IF d = "c2b" THEN "backend" ELSE "client"

\* Data messages: a message type and a payload.
Msgs == { [type |-> "Text", data |-> "a"], [type |-> "Binary", data |-> "b"] }

NoMsg == [type |-> "none", data |-> ""]

\* ------------------------------------------------------------ configuration
\* time.ParseDuration on the interval strings the model draws from, in
\* milliseconds: a decimal number with a unit suffix; a number without a unit,
\* and text that is no number, are errors.
ParseDuration(str) ==
    CASE str = "15s"   -> [ok |-> TRUE,  dur |-> 15000]
      [] str = "500ms" -> [ok |-> TRUE,  dur |-> 500]
      [] str = "1m"    -> [ok |-> TRUE,  dur |-> 60000]
      [] str = "0s"    -> [ok |-> TRUE,  dur |-> 0]
      [] str = "-5s"   -> [ok |-> TRUE,  dur |-> -5000]
      [] str = "15"    -> [ok |-> FALSE, dur |-> 0]
      [] str = "abc"   -> [ok |-> FALSE, dur |-> 0]
      [] OTHER         -> [ok |-> FALSE, dur |-> 0]

IntervalStrings == {"", "15s", "500ms", "1m", "0s", "-5s", "15", "abc"}
HostStrings == {"", "backend.example.com"}
PathLists == { <<>>, <<"/ws">>, <<"/ws", "/chat">>, <<"/chat">> }

\* ---------------------------------------------------------------- requests
\* An inbound request: its URL path, its headers (name/value pairs) and the
\* comma-separated parts of its Sec-WebSocket-Protocol header, as written.
UpgradeHeaders ==
    { <<"Connection", "upgrade">>, <<"Upgrade", "websocket">>,
      <<"Sec-WebSocket-Version", "13">>, <<"Sec-WebSocket-Key", "k">> }

Requests ==
    { [path |-> "/ws",      hdr |-> {<<"Cookie", "c">>},                   protocols |-> <<>>],
      [path |-> "/metrics", hdr |-> UpgradeHeaders,                        protocols |-> <<>>],
      [path |-> "/ws",      hdr |-> UpgradeHeaders \cup {<<"Cookie", "c">>}, protocols |-> <<>>],
      [path |-> "/chat",    hdr |-> UpgradeHeaders \cup
                                     {<<"Sec-WebSocket-Protocol", "chat.v1, ,chat.v2">>,
                                      <<"Sec-WebSocket-Extensions", "permessage-deflate">>},
                            protocols |-> <<"chat.v1", " ", "chat.v2">>] }

NoRequest == [path |-> "", hdr |-> {}, protocols |-> <<>>]

\* What the backend may answer as its selected subprotocol ("" is none).
BackendChoices == {"", "chat.v2"}

\* What the next handler may return.
NextResults == {"next: nil", "next: error"}

VARIABLES
    \* --- the handler instance m
    Interval,           \* m.Interval
    origInterval,       \* history: m.Interval as configured
    intervalDuration,   \* m.intervalDuration
    BackendHost,        \* m.BackendHost
    BackendPaths,       \* m.BackendPaths
    connectionsNil,     \* m.connections is the nil map
    connections,        \* m.connections: the set of registered client connections
    mu,                 \* m.mu: "free" or the session holding it
    provisioned,        \* what Provision returned: "not called", "nil" or an error
    live,               \* the sessions this run may start
    \* --- one ServeHTTP invocation per session
    pc,                 \* position of ServeHTTP
    req,                \* r
    reqHeader,          \* reqHeader, the headers passed to Dial
    ret,                \* the value ServeHTTP returned ("" while it runs)
    nextCalls,          \* history: calls of next.ServeHTTP
    nextRet,            \* history: what next.ServeHTTP returned
    dials,              \* history: calls of dialer.Dial
    upgrades,           \* history: calls of upgrader.Upgrade
    advertised,         \* history: upgrader.Subprotocols at the call of Upgrade
    inserts,            \* history: insertions into m.connections
    conn,               \* conn[s][e]: the connection of session s at end e
    err,                \* the local err after the receive from errCh
    errCh,              \* errCh, a channel of capacity 2
    firstErr,           \* history: the first error sent on errCh
    \* --- the relay tasks
    rpc,                \* rpc[s][d]: position of proxyWebSocket in direction d
    cur,                \* cur[s][d]: msgType, msg held between read and write
    inbox,              \* inbox[s][e]: messages the peer at e sent, not yet read
    readLog,            \* history: readLog[s][d], the messages read in direction d
    outbox,             \* history: outbox[s][e], the messages written to end e
    msgQuota,           \* messages the peers of s may still send
    \* --- the heartbeat task
    hpc,                \* position of handlePing
    pongHandler,        \* the client connection's pong handler
    ticks,              \* history: ticks received from pingTicker.C
    probes,             \* history: calls of WriteControl(PingMessage)
    lastProbe,          \* outcome of the last WriteControl
    \* --- liveness acknowledgements (pong frames) of the client
    pongs,              \* pong frames arrived on the client connection, not yet read
    pongQuota,          \* pong frames the client of s may still send
    pongLog             \* history: the handler invoked for each pong frame read

mvars == <<Interval, origInterval, intervalDuration, BackendHost, BackendPaths,
           connectionsNil, provisioned, live>>
svars == <<pc, req, reqHeader, ret, nextCalls, nextRet, dials, upgrades, advertised, inserts, err>>
rvars == <<rpc, cur, inbox, readLog, outbox, msgQuota>>
hvars == <<hpc, pongHandler, ticks, probes, lastProbe>>
pvars == <<pongs, pongQuota, pongLog>>
vars == <<mvars, connections, mu, svars, conn, errCh, firstErr, rvars, hvars, pvars>>

\* A connection that does not exist yet.
NoConn == [state |-> "none", sub |-> "", closes |-> 0, broken |-> FALSE]
\* A connection as Dial or Upgrade returns it, with its negotiated subprotocol.
NewConn(sub) == [state |-> "open", sub |-> sub, closes |-> 0, broken |-> FALSE]
\* conn.Close()
Close(c) == [c EXCEPT !.state = "closed", !.closes = @ + 1]

\* ------------------------------------------------------------------- Init
\* The state after construction (new(WSHeartbeat) and UnmarshalCaddyfile):
\* the configuration fields are set, nothing else is.
InitSessions ==
    /\ connectionsNil = TRUE
    /\ connections = {}
    /\ mu = "free"
    /\ provisioned = "not called"
    /\ intervalDuration = 0
    /\ pc = [s \in AllSessions |-> "idle"]
    /\ req = [s \in AllSessions |-> NoRequest]
    /\ reqHeader = [s \in AllSessions |-> {}]
    /\ ret = [s \in AllSessions |-> ""]
    /\ nextRet = [s \in AllSessions |-> ""]
    /\ nextCalls = [s \in AllSessions |-> 0]
    /\ dials = [s \in AllSessions |-> 0]
    /\ upgrades = [s \in AllSessions |-> 0]
    /\ advertised = [s \in AllSessions |-> <<>>]
    /\ inserts = [s \in AllSessions |-> 0]
    /\ conn = [s \in AllSessions |-> [e \in Ends |-> NoConn]]
    /\ err = [s \in AllSessions |-> ""]
    /\ errCh = [s \in AllSessions |-> <<>>]
    /\ firstErr = [s \in AllSessions |-> ""]
    /\ rpc = [s \in AllSessions |-> [d \in Dirs |-> "unstarted"]]
    /\ cur = [s \in AllSessions |-> [d \in Dirs |-> NoMsg]]
    /\ inbox = [s \in AllSessions |-> [e \in Ends |-> <<>>]]
    /\ readLog = [s \in AllSessions |-> [d \in Dirs |-> <<>>]]
    /\ outbox = [s \in AllSessions |-> [e \in Ends |-> <<>>]]
    /\ hpc = [s \in AllSessions |-> "unstarted"]
    /\ pongHandler = [s \in AllSessions |-> "default"]
    /\ ticks = [s \in AllSessions |-> 0]
    /\ probes = [s \in AllSessions |-> 0]
    /\ lastProbe = [s \in AllSessions |-> "none"]
    /\ pongs = [s \in AllSessions |-> 0]
    /\ pongLog = [s \in AllSessions |-> <<>>]

\* The configuration of the README: interval 15s, backend host, /ws and /chat;
\* one session, whose peers may send MaxMsgs messages.
Init ==
    /\ Interval = "15s"
    /\ origInterval = Interval
    /\ BackendHost = "backend.example.com"
    /\ BackendPaths = <<"/ws", "/chat">>
    /\ live = {"s1"}
    /\ msgQuota = [s \in AllSessions |-> MaxMsgs]
    /\ pongQuota = [s \in AllSessions |-> 0]
    /\ InitSessions

\* Any configuration the Caddyfile or JSON may hold.
InitAnyConfig ==
    /\ Interval \in IntervalStrings
    /\ origInterval = Interval
    /\ BackendHost \in HostStrings
    /\ BackendPaths \in PathLists
    /\ live = {"s1"}
    /\ msgQuota = [s \in AllSessions |-> 0]
    /\ pongQuota = [s \in AllSessions |-> 0]
    /\ InitSessions

\* -------------------------------------------------------------- Provision
DefaultInterval == "15s"

\* if m.Interval == "" { m.Interval = "15s" }
EffectiveInterval(str) == IF str = "" THEN DefaultInterval ELSE str

\* Faulty variant: only the parse error is checked, not the sign.
IntervalInvalid_ParseOnly(str) == ~ParseDuration(str).ok

\* err != nil || dur <= 0
IntervalInvalid(str) ==
    LET p == ParseDuration(str) IN (~p.ok) \/ p.dur <= 0

\* The value Provision returns for a configuration.
ProvisionResult(interval, host, paths) ==
    IF IntervalInvalid(EffectiveInterval(interval)) THEN "invalid interval"
    ELSE IF host = "" THEN "backend host must be specified"
    ELSE IF Len(paths) = 0 THEN "backend paths must have at least one entry"
    ELSE "nil"

Provision ==
    /\ provisioned = "not called"
    /\ Interval' = EffectiveInterval(Interval)
    /\ provisioned' = ProvisionResult(Interval, BackendHost, BackendPaths)
    /\ intervalDuration' =
          IF IntervalInvalid(Interval') THEN intervalDuration
          ELSE ParseDuration(Interval').dur
    /\ connectionsNil' = (provisioned' # "nil")
    /\ UNCHANGED <<origInterval, BackendHost, BackendPaths, live, connections, mu,
                   svars, conn, errCh, firstErr, rvars, hvars, pvars>>

\* -------------------------------------------------- ServeHTTP: eligibility
\* websocket.IsWebSocketUpgrade(r): the Connection header holds the token
\* "upgrade" and the Upgrade header holds the token "websocket".
IsWebSocketUpgrade(r) ==
    /\ <<"Connection", "upgrade">> \in r.hdr
    /\ <<"Upgrade", "websocket">> \in r.hdr

\* Faulty variant: the allow-list is not consulted.
Allowed_Any(paths, r) == TRUE

\* The loop over m.BackendPaths: p == r.URL.Path for some entry p.
Allowed(paths, r) == \E i \in 1..Len(paths) : paths[i] = r.path

\* The request takes part in the proxying: it passed both early returns.
Eligible(paths, r) == IsWebSocketUpgrade(r) /\ Allowed(paths, r)

\* strings.TrimSpace on one comma-separated part
TrimSpace(p) == IF p = " " THEN "" ELSE p

\* offeredByClient: the parts of the header, trimmed, the empty ones dropped
OfferedByClient(r) ==
    LET trimmed == [i \in 1..Len(r.protocols) |-> TrimSpace(r.protocols[i])]
        NonEmpty(p) == p # ""
    IN SelectSeq(trimmed, NonEmpty)

\* The header names reqHeader.Del removes from the clone of r.Header.
StrippedHeaders ==
    {"Sec-WebSocket-Version", "Sec-WebSocket-Key", "Sec-WebSocket-Extensions",
     "Sec-WebSocket-Protocol", "Connection", "Upgrade"}

\* The header names the second copy of the handler removes.
SecondStrippedHeaders ==
    {"Sec-WebSocket-Version", "Sec-WebSocket-Key", "Sec-WebSocket-Extensions",
     "Sec-WebSocket-Protocol", "Connection"}

\* reqHeader := r.Header.Clone(); reqHeader.Del(...) for each stripped name
StripHeaders(hdr, names) == { h \in hdr : h[1] \notin names }

\* The serving precondition: Caddy serves a handler only after its Provision
\* returned nil; each session of the run is one invocation.
MayServe(s) == s \in live /\ provisioned = "nil" /\ pc[s] = "idle"

\* Both early returns: return next.ServeHTTP(w, r)
PassThrough(s) ==
    /\ MayServe(s)
    /\ \E r \in Requests, v \in NextResults :
          /\ ~Eligible(BackendPaths, r)
          /\ req' = [req EXCEPT ![s] = r]
          /\ nextCalls' = [nextCalls EXCEPT ![s] = @ + 1]
          /\ nextRet' = [nextRet EXCEPT ![s] = v]
          /\ ret' = [ret EXCEPT ![s] = v]
    /\ pc' = [pc EXCEPT ![s] = "returned"]
    /\ UNCHANGED <<mvars, connections, mu, reqHeader, dials, upgrades, advertised,
                   inserts, err, conn, errCh, firstErr, rvars, hvars, pvars>>

\* An eligible request: the offered subprotocols are parsed, the backend URL
\* and the backend headers are built.
Accept(s) ==
    /\ MayServe(s)
    /\ \E r \in Requests :
          /\ Eligible(BackendPaths, r)
          /\ req' = [req EXCEPT ![s] = r]
          /\ reqHeader' = [reqHeader EXCEPT ![s] = StripHeaders(r.hdr, StrippedHeaders)]
    /\ pc' = [pc EXCEPT ![s] = "dial"]
    /\ UNCHANGED <<mvars, connections, mu, ret, nextCalls, nextRet, dials, upgrades,
                   advertised, inserts, err, conn, errCh, firstErr, rvars, hvars, pvars>>

\* ------------------------------------------- ServeHTTP: dial, upgrade, check
\* Faulty variant: a failed dial is attempted once more.
Dial_Retry(s) ==
    /\ pc[s] = "dial"
    /\ dials[s] < 2
    /\ dials' = [dials EXCEPT ![s] = @ + 1]
    /\ \/ /\ pc' = pc
          /\ UNCHANGED <<ret, conn>>
       \/ \E chosen \in BackendChoices :
             /\ conn' = [conn EXCEPT ![s]["backend"] = NewConn(chosen)]
             /\ pc' = [pc EXCEPT ![s] = "upgrade"]
             /\ UNCHANGED ret
    /\ UNCHANGED <<mvars, connections, mu, req, reqHeader, nextCalls, nextRet, upgrades,
                   advertised, inserts, err, errCh, firstErr, rvars, hvars, pvars>>

\* dialer.Dial(backendURL, reqHeader): fails, or returns the backend
\* connection with the subprotocol the backend selected.
Dial(s) ==
    /\ pc[s] = "dial"
    /\ dials' = [dials EXCEPT ![s] = @ + 1]
    /\ \/ /\ ret' = [ret EXCEPT ![s] = "dial error"]
          /\ pc' = [pc EXCEPT ![s] = "returned"]
          /\ UNCHANGED conn
       \/ \E chosen \in BackendChoices :
             /\ conn' = [conn EXCEPT ![s]["backend"] = NewConn(chosen)]
             /\ pc' = [pc EXCEPT ![s] = "upgrade"]
             /\ UNCHANGED ret
    /\ UNCHANGED <<mvars, connections, mu, req, reqHeader, nextCalls, nextRet, upgrades,
                   advertised, inserts, err, errCh, firstErr, rvars, hvars, pvars>>

\* Faulty variant: the upgrader advertises no subprotocol.
UpgraderSubprotocols_Unset(chosenByBackend) == <<>>

\* upgrader.Subprotocols: []string{chosenByBackend} if the backend selected
\* one, unset otherwise.
UpgraderSubprotocols(chosenByBackend) ==
    IF chosenByBackend # "" THEN <<chosenByBackend>> ELSE <<>>

\* websocket.Subprotocols(r): the header's parts, trimmed.
RequestedSubprotocols(r) == [i \in 1..Len(r.protocols) |-> TrimSpace(r.protocols[i])]

\* The subprotocol Upgrade selects (responseHeader is nil): the first of the
\* upgrader's protocols that the client requested, or none.
SelectSubprotocol(serverProtos, r) ==
    LET clientProtos == RequestedSubprotocols(r)
        hits == { i \in 1..Len(serverProtos) :
                    \E j \in 1..Len(clientProtos) : clientProtos[j] = serverProtos[i] }
    IN IF hits = {} THEN ""
       ELSE serverProtos[CHOOSE i \in hits : \A k \in hits : i <= k]

\* The local chosenByBackend and chosenByClient: Subprotocol() of each side.
chosenByBackend(s) == conn[s]["backend"].sub
chosenByClient(s) == conn[s]["client"].sub

\* Faulty variant: a failed upgrade leaves the backend connection open.
Upgrade_Leak(s) ==
    /\ pc[s] = "upgrade"
    /\ upgrades' = [upgrades EXCEPT ![s] = @ + 1]
    /\ advertised' = [advertised EXCEPT ![s] = UpgraderSubprotocols(chosenByBackend(s))]
    /\ \/ /\ conn' = [conn EXCEPT ![s]["client"] =
                         NewConn(SelectSubprotocol(advertised'[s], req[s]))]
          /\ pc' = [pc EXCEPT ![s] = "check"]
          /\ UNCHANGED ret
       \/ /\ UNCHANGED conn
          /\ ret' = [ret EXCEPT ![s] = "upgrade error"]
          /\ pc' = [pc EXCEPT ![s] = "returned"]
    /\ UNCHANGED <<mvars, connections, mu, req, reqHeader, nextCalls, nextRet, dials,
                   inserts, err, errCh, firstErr, rvars, hvars, pvars>>

\* upgrader.Upgrade(w, r, nil): on failure the backend connection is closed
\* and the error returned.
Upgrade(s) ==
    /\ pc[s] = "upgrade"
    /\ upgrades' = [upgrades EXCEPT ![s] = @ + 1]
    /\ advertised' = [advertised EXCEPT ![s] = UpgraderSubprotocols(chosenByBackend(s))]
    /\ \/ /\ conn' = [conn EXCEPT ![s]["client"] =
                         NewConn(SelectSubprotocol(advertised'[s], req[s]))]
          /\ pc' = [pc EXCEPT ![s] = "check"]
          /\ UNCHANGED ret
       \/ /\ conn' = [conn EXCEPT ![s]["backend"] = Close(@)]
          /\ ret' = [ret EXCEPT ![s] = "upgrade error"]
          /\ pc' = [pc EXCEPT ![s] = "returned"]
    /\ UNCHANGED <<mvars, connections, mu, req, reqHeader, nextCalls, nextRet, dials,
                   inserts, err, errCh, firstErr, rvars, hvars, pvars>>

\* Faulty variant: the consistency check never reports a mismatch.
Mismatch_Never(backendSub, clientSub) == FALSE

\* chosenByBackend != chosenByClient
Mismatch(backendSub, clientSub) == backendSub # clientSub

\* Faulty variant: a matching session goes on without being registered.
CheckSubprotocol_SkipRegister(s) ==
    /\ pc[s] = "check"
    /\ pc' = [pc EXCEPT ![s] =
                IF chosenByBackend(s) # chosenByClient(s)
                THEN "mismatch" ELSE "spawnPing"]
    /\ UNCHANGED <<mvars, connections, mu, req, reqHeader, ret, nextCalls, nextRet,
                   dials, upgrades, advertised, inserts, err, conn, errCh, firstErr,
                   rvars, hvars, pvars>>

CheckSubprotocol(s) ==
    /\ pc[s] = "check"
    /\ pc' = [pc EXCEPT ![s] =
                IF Mismatch(chosenByBackend(s), chosenByClient(s))
                THEN "mismatch" ELSE "lock"]
    /\ UNCHANGED <<mvars, connections, mu, req, reqHeader, ret, nextCalls, nextRet,
                   dials, upgrades, advertised, inserts, err, conn, errCh, firstErr,
                   rvars, hvars, pvars>>

\* The mismatch branch: clientConn.Close(); backendConn.Close()
MismatchClose(s) ==
    /\ pc[s] = "mismatch"
    /\ conn' = [conn EXCEPT ![s]["client"] = Close(@), ![s]["backend"] = Close(@)]
    /\ pc' = [pc EXCEPT ![s] = "mismatchReturn"]
    /\ UNCHANGED <<mvars, connections, mu, req, reqHeader, ret, nextCalls, nextRet,
                   dials, upgrades, advertised, inserts, err, errCh, firstErr,
                   rvars, hvars, pvars>>

\* return fmt.Errorf("subprotocol mismatch: ...")
MismatchReturn(s) ==
    /\ pc[s] = "mismatchReturn"
    /\ ret' = [ret EXCEPT ![s] = "subprotocol mismatch"]
    /\ pc' = [pc EXCEPT ![s] = "returned"]
    /\ UNCHANGED <<mvars, connections, mu, req, reqHeader, nextCalls, nextRet, dials,
                   upgrades, advertised, inserts, err, conn, errCh, firstErr,
                   rvars, hvars, pvars>>

\* ------------------------------------------ ServeHTTP: registry and spawning
\* Faulty variant: Lock does not wait for the mutex to be free.
Lock_NoWait(s) ==
    /\ pc[s] = "lock"
    /\ mu' = s
    /\ pc' = [pc EXCEPT ![s] = "insert"]
    /\ UNCHANGED <<mvars, connections, req, reqHeader, ret, nextCalls, nextRet, dials,
                   upgrades, advertised, inserts, err, conn, errCh, firstErr,
                   rvars, hvars, pvars>>

\* m.mu.Lock()
Lock(s) ==
    /\ pc[s] = "lock"
    /\ mu = "free"
    /\ mu' = s
    /\ pc' = [pc EXCEPT ![s] = "insert"]
    /\ UNCHANGED <<mvars, connections, req, reqHeader, ret, nextCalls, nextRet, dials,
                   upgrades, advertised, inserts, err, conn, errCh, firstErr,
                   rvars, hvars, pvars>>

\* m.connections[clientConn] = struct{}{}
Insert(s) ==
    /\ pc[s] = "insert"
    /\ connections' = connections \cup {s}
    /\ inserts' = [inserts EXCEPT ![s] = @ + 1]
    /\ pc' = [pc EXCEPT ![s] = "unlock"]
    /\ UNCHANGED <<mvars, mu, req, reqHeader, ret, nextCalls, nextRet, dials,
                   upgrades, advertised, err, conn, errCh, firstErr, rvars, hvars, pvars>>

\* m.mu.Unlock()
Unlock(s) ==
    /\ pc[s] = "unlock"
    /\ mu' = "free"
    /\ pc' = [pc EXCEPT ![s] = "spawnPing"]
    /\ UNCHANGED <<mvars, connections, req, reqHeader, ret, nextCalls, nextRet, dials,
                   upgrades, advertised, inserts, err, conn, errCh, firstErr,
                   rvars, hvars, pvars>>

\* go m.handlePing(clientConn)
SpawnPing(s) ==
    /\ pc[s] = "spawnPing"
    /\ hpc' = [hpc EXCEPT ![s] = "setPong"]
    /\ pc' = [pc EXCEPT ![s] = "spawnC2B"]
    /\ UNCHANGED <<mvars, connections, mu, req, reqHeader, ret, nextCalls, nextRet,
                   dials, upgrades, advertised, inserts, err, conn, errCh, firstErr,
                   rvars, pongHandler, ticks, probes, lastProbe, pvars>>

\* errCh := make(chan error, 2); go m.proxyWebSocket(clientConn, backendConn, errCh)
SpawnC2B(s) ==
    /\ pc[s] = "spawnC2B"
    /\ errCh' = [errCh EXCEPT ![s] = <<>>]
    /\ rpc' = [rpc EXCEPT ![s]["c2b"] = "read"]
    /\ pc' = [pc EXCEPT ![s] = "spawnB2C"]
    /\ UNCHANGED <<mvars, connections, mu, req, reqHeader, ret, nextCalls, nextRet,
                   dials, upgrades, advertised, inserts, err, conn, firstErr,
                   cur, inbox, readLog, outbox, msgQuota, hvars, pvars>>

\* go m.proxyWebSocket(backendConn, clientConn, errCh)
SpawnB2C(s) ==
    /\ pc[s] = "spawnB2C"
    /\ rpc' = [rpc EXCEPT ![s]["b2c"] = "read"]
    /\ pc' = [pc EXCEPT ![s] = "recv"]
    /\ UNCHANGED <<mvars, connections, mu, req, reqHeader, ret, nextCalls, nextRet,
                   dials, upgrades, advertised, inserts, err, conn, errCh, firstErr,
                   cur, inbox, readLog, outbox, msgQuota, hvars, pvars>>

\* --------------------------------------------------------- ServeHTTP: join
\* Faulty variant: the newest error in the channel is taken.
Received_Newest(ch) == ch[Len(ch)]

\* The error a receive from the channel yields: the oldest one in it.
Received(ch) == Head(ch)

\* err = <-errCh: blocks while the channel is empty
Recv(s) ==
    /\ pc[s] = "recv"
    /\ errCh[s] # <<>>
    /\ err' = [err EXCEPT ![s] = Received(errCh[s])]
    /\ errCh' = [errCh EXCEPT ![s] = Tail(@)]
    /\ pc' = [pc EXCEPT ![s] = "closeClient"]
    /\ UNCHANGED <<mvars, connections, mu, req, reqHeader, ret, nextCalls, nextRet,
                   dials, upgrades, advertised, inserts, conn, firstErr, rvars, hvars, pvars>>

\* _ = clientConn.Close()
CloseClient(s) ==
    /\ pc[s] = "closeClient"
    /\ conn' = [conn EXCEPT ![s]["client"] = Close(@)]
    /\ pc' = [pc EXCEPT ![s] = "closeBackend"]
    /\ UNCHANGED <<mvars, connections, mu, req, reqHeader, ret, nextCalls, nextRet,
                   dials, upgrades, advertised, inserts, err, errCh, firstErr,
                   rvars, hvars, pvars>>

\* Faulty variant: the backend connection is closed a second time.
CloseBackend_Twice(s) ==
    /\ pc[s] = "closeBackend"
    /\ conn' = [conn EXCEPT ![s]["backend"] = Close(Close(@))]
    /\ pc' = [pc EXCEPT ![s] = "lockDelete"]
    /\ UNCHANGED <<mvars, connections, mu, req, reqHeader, ret, nextCalls, nextRet,
                   dials, upgrades, advertised, inserts, err, errCh, firstErr,
                   rvars, hvars, pvars>>

\* _ = backendConn.Close()
CloseBackend(s) ==
    /\ pc[s] = "closeBackend"
    /\ conn' = [conn EXCEPT ![s]["backend"] = Close(@)]
    /\ pc' = [pc EXCEPT ![s] = "lockDelete"]
    /\ UNCHANGED <<mvars, connections, mu, req, reqHeader, ret, nextCalls, nextRet,
                   dials, upgrades, advertised, inserts, err, errCh, firstErr,
                   rvars, hvars, pvars>>

\* m.mu.Lock() before the delete
LockDelete(s) ==
    /\ pc[s] = "lockDelete"
    /\ mu = "free"
    /\ mu' = s
    /\ pc' = [pc EXCEPT ![s] = "delete"]
    /\ UNCHANGED <<mvars, connections, req, reqHeader, ret, nextCalls, nextRet, dials,
                   upgrades, advertised, inserts, err, conn, errCh, firstErr,
                   rvars, hvars, pvars>>

\* Faulty variant: the deletion empties the registry.
Delete_All(s) ==
    /\ pc[s] = "delete"
    /\ connections' = {}
    /\ pc' = [pc EXCEPT ![s] = "unlockDelete"]
    /\ UNCHANGED <<mvars, mu, req, reqHeader, ret, nextCalls, nextRet, dials,
                   upgrades, advertised, inserts, err, conn, errCh, firstErr,
                   rvars, hvars, pvars>>

\* Faulty variant: the entry is not removed.
Delete_Kept(s) ==
    /\ pc[s] = "delete"
    /\ pc' = [pc EXCEPT ![s] = "unlockDelete"]
    /\ UNCHANGED <<mvars, connections, mu, req, reqHeader, ret, nextCalls, nextRet,
                   dials, upgrades, advertised, inserts, err, conn, errCh, firstErr,
                   rvars, hvars, pvars>>

\* delete(m.connections, clientConn)
Delete(s) ==
    /\ pc[s] = "delete"
    /\ connections' = connections \ {s}
    /\ pc' = [pc EXCEPT ![s] = "unlockDelete"]
    /\ UNCHANGED <<mvars, mu, req, reqHeader, ret, nextCalls, nextRet, dials,
                   upgrades, advertised, inserts, err, conn, errCh, firstErr,
                   rvars, hvars, pvars>>

\* m.mu.Unlock() after the delete
UnlockDelete(s) ==
    /\ pc[s] = "unlockDelete"
    /\ mu' = "free"
    /\ pc' = [pc EXCEPT ![s] = "return"]
    /\ UNCHANGED <<mvars, connections, req, reqHeader, ret, nextCalls, nextRet, dials,
                   upgrades, advertised, inserts, err, conn, errCh, firstErr,
                   rvars, hvars, pvars>>

\* return err
Return(s) ==
    /\ pc[s] = "return"
    /\ ret' = [ret EXCEPT ![s] = err[s]]
    /\ pc' = [pc EXCEPT ![s] = "returned"]
    /\ UNCHANGED <<mvars, connections, mu, req, reqHeader, nextCalls, nextRet, dials,
                   upgrades, advertised, inserts, err, conn, errCh, firstErr,
                   rvars, hvars, pvars>>

\* ---------------------------------------------------------- proxyWebSocket
\* The error values of the relay tasks, named by task and failing call.
RelayError(d, op) ==
    CASE d = "c2b" /\ op = "read"  -> "c2b: read error"
      [] d = "c2b" /\ op = "write" -> "c2b: write error"
      [] d = "b2c" /\ op = "read"  -> "b2c: read error"
      [] d = "b2c" /\ op = "write" -> "b2c: write error"

RelayErrors == { RelayError(d, op) : d \in Dirs, op \in {"read", "write"} }

\* Faulty variant: closing the connection on this side does not fail its
\* reads and writes.
Unusable_BrokenOnly(c) == c.broken

\* A read or write on the connection fails: it was closed on this side, or
\* the peer or the network is gone.
Unusable(c) == c.state = "closed" \/ c.broken

\* msgType, msg, err := src.ReadMessage(): blocks until a message arrives or
\* the connection fails.
RelayRead(s, d) ==
    /\ rpc[s][d] = "read"
    /\ \/ /\ Unusable(conn[s][Src(d)])
          /\ rpc' = [rpc EXCEPT ![s][d] = "sendReadErr"]
          /\ UNCHANGED <<cur, inbox, readLog>>
       \/ /\ conn[s][Src(d)].state = "open"
          /\ inbox[s][Src(d)] # <<>>
          /\ cur' = [cur EXCEPT ![s][d] = Head(inbox[s][Src(d)])]
          /\ inbox' = [inbox EXCEPT ![s][Src(d)] = Tail(@)]
          /\ readLog' = [readLog EXCEPT ![s][d] = Append(@, Head(inbox[s][Src(d)]))]
          /\ rpc' = [rpc EXCEPT ![s][d] = "write"]
    /\ UNCHANGED <<mvars, connections, mu, svars, conn, errCh, firstErr, outbox,
                   msgQuota, hvars, pvars>>

\* Faulty variant: every message is written as a text message.
Forwarded_AsText(m) == [type |-> "Text", data |-> m.data]

\* The arguments of dst.WriteMessage(msgType, msg): what was read.
Forwarded(m) == [type |-> m.type, data |-> m.data]

\* err = dst.WriteMessage(msgType, msg)
RelayWrite(s, d) ==
    /\ rpc[s][d] = "write"
    /\ IF Unusable(conn[s][Dst(d)])
       THEN /\ rpc' = [rpc EXCEPT ![s][d] = "sendWriteErr"]
            /\ UNCHANGED outbox
       ELSE /\ outbox' = [outbox EXCEPT ![s][Dst(d)] = Append(@, Forwarded(cur[s][d]))]
            /\ rpc' = [rpc EXCEPT ![s][d] = "read"]
    /\ cur' = [cur EXCEPT ![s][d] = NoMsg]
    /\ UNCHANGED <<mvars, connections, mu, svars, conn, errCh, firstErr, inbox,
                   readLog, msgQuota, hvars, pvars>>

\* Capacity of errCh: make(chan error, 2)
ErrChCap == 2

\* errCh <- err; return: blocks while the channel is full
RelaySend(s, d) ==
    /\ rpc[s][d] \in {"sendReadErr", "sendWriteErr"}
    /\ Len(errCh[s]) < ErrChCap
    /\ LET e == RelayError(d, IF rpc[s][d] = "sendReadErr" THEN "read" ELSE "write")
       IN /\ errCh' = [errCh EXCEPT ![s] = Append(@, e)]
          /\ firstErr' = [firstErr EXCEPT ![s] = IF @ = "" THEN e ELSE @]
    /\ rpc' = [rpc EXCEPT ![s][d] = "done"]
    /\ UNCHANGED <<mvars, connections, mu, svars, conn, cur, inbox, readLog, outbox,
                   msgQuota, hvars, pvars>>

\* -------------------------------------------------------------- handlePing
\* pingTicker := time.NewTicker(...); conn.SetPongHandler(...)
SetPongHandler(s) ==
    /\ hpc[s] = "setPong"
    /\ pongHandler' = [pongHandler EXCEPT ![s] = "logging"]
    /\ hpc' = [hpc EXCEPT ![s] = "loop"]
    /\ UNCHANGED <<mvars, connections, mu, svars, conn, errCh, firstErr, rvars,
                   ticks, probes, lastProbe, pvars>>

\* Faulty variant: a probe on a closed connection can still be sent.
ProbeOutcomes_IgnoreClose(c) ==
    IF c.broken THEN {"broken"} ELSE {"ok", "timeout"}

\* The outcomes of conn.WriteControl(PingMessage, nil, now+5s) on connection c:
\* an error on a closed or broken connection; otherwise the frame is written,
\* or the deadline passes first.
ProbeOutcomes(c) ==
    IF c.state = "closed" THEN {"closed"}
    ELSE IF c.broken THEN {"broken"}
    ELSE {"ok", "timeout"}

\* Faulty variant: the loop goes on after a failed probe.
ProbeSent_Always(outcome) == TRUE

\* Faulty variant: the loop returns after the first probe, sent or not.
ProbeSent_Never(outcome) == FALSE

\* The loop goes on after a probe with this outcome (err == nil).
ProbeSent(outcome) == outcome = "ok"

\* Faulty variant: a failed probe closes the client connection.
Tick_Closing(s) ==
    /\ hpc[s] = "loop"
    /\ ticks[s] < MaxTicks \/ Unusable(conn[s]["client"])
    /\ ticks' = [ticks EXCEPT ![s] = @ + 1]
    /\ probes' = [probes EXCEPT ![s] = @ + 1]
    /\ \E o \in ProbeOutcomes(conn[s]["client"]) :
          /\ lastProbe' = [lastProbe EXCEPT ![s] = o]
          /\ hpc' = [hpc EXCEPT ![s] = IF o = "ok" THEN "loop" ELSE "done"]
          /\ conn' = IF o = "ok" THEN conn
                     ELSE [conn EXCEPT ![s]["client"] = Close(@)]
    /\ UNCHANGED <<mvars, connections, mu, svars, errCh, firstErr, rvars,
                   pongHandler, pvars>>

\* case <-pingTicker.C: one tick is received and one probe is attempted; the
\* loop returns when the probe fails.  MaxTicks caps the ticks on a usable
\* connection; the tick whose probe must fail is always delivered.
Tick(s) ==
    /\ hpc[s] = "loop"
    /\ ticks[s] < MaxTicks \/ Unusable(conn[s]["client"])
    /\ ticks' = [ticks EXCEPT ![s] = @ + 1]
    /\ probes' = [probes EXCEPT ![s] = @ + 1]
    /\ \E o \in ProbeOutcomes(conn[s]["client"]) :
          /\ lastProbe' = [lastProbe EXCEPT ![s] = o]
          /\ hpc' = [hpc EXCEPT ![s] = IF ProbeSent(o) THEN "loop" ELSE "done"]
    /\ UNCHANGED <<mvars, connections, mu, svars, conn, errCh, firstErr, rvars,
                   pongHandler, pvars>>

\* --------------------------------------------------------- the environment
\* The peer at end e sends a data message.
PeerSend(s, e) ==
    /\ conn[s][e].state = "open"
    /\ ~conn[s][e].broken
    /\ msgQuota[s] > 0
    /\ \E m \in Msgs : inbox' = [inbox EXCEPT ![s][e] = Append(@, m)]
    /\ msgQuota' = [msgQuota EXCEPT ![s] = @ - 1]
    /\ UNCHANGED <<mvars, connections, mu, svars, conn, errCh, firstErr, rpc, cur,
                   readLog, outbox, hvars, pvars>>

\* The peer at end e goes away (close frame, reset, network failure): from
\* now on reads and writes on the connection fail.
PeerFail(s, e) ==
    /\ conn[s][e].state = "open"
    /\ ~conn[s][e].broken
    /\ conn' = [conn EXCEPT ![s][e].broken = TRUE]
    /\ UNCHANGED <<mvars, connections, mu, svars, errCh, firstErr, rvars, hvars, pvars>>

\* ------------------------------------------ the second copy of the handler
\* An eligible request in the second copy: it goes on to the client upgrade.
SecondAccept(s) ==
    /\ MayServe(s)
    /\ \E r \in Requests :
          /\ Eligible(BackendPaths, r)
          /\ req' = [req EXCEPT ![s] = r]
    /\ pc' = [pc EXCEPT ![s] = "secondUpgrade"]
    /\ UNCHANGED <<mvars, connections, mu, reqHeader, ret, nextCalls, nextRet, dials,
                   upgrades, advertised, inserts, err, conn, errCh, firstErr,
                   rvars, hvars, pvars>>

\* upgrader.Upgrade(w, r, nil) with no Subprotocols set: no subprotocol.
SecondUpgrade(s) ==
    /\ pc[s] = "secondUpgrade"
    /\ upgrades' = [upgrades EXCEPT ![s] = @ + 1]
    /\ \/ /\ conn' = [conn EXCEPT ![s]["client"] = NewConn(SelectSubprotocol(<<>>, req[s]))]
          /\ pc' = [pc EXCEPT ![s] = "secondLock"]
          /\ UNCHANGED ret
       \/ /\ ret' = [ret EXCEPT ![s] = "upgrade error"]
          /\ pc' = [pc EXCEPT ![s] = "returned"]
          /\ UNCHANGED conn
    /\ UNCHANGED <<mvars, connections, mu, req, reqHeader, nextCalls, nextRet, dials,
                   advertised, inserts, err, errCh, firstErr, rvars, hvars, pvars>>

\* m.mu.Lock(); m.connections[clientConn] = struct{}{}; m.mu.Unlock()
SecondLock(s) ==
    /\ pc[s] = "secondLock"
    /\ mu = "free"
    /\ mu' = s
    /\ pc' = [pc EXCEPT ![s] = "secondInsert"]
    /\ UNCHANGED <<mvars, connections, req, reqHeader, ret, nextCalls, nextRet, dials,
                   upgrades, advertised, inserts, err, conn, errCh, firstErr,
                   rvars, hvars, pvars>>

SecondInsert(s) ==
    /\ pc[s] = "secondInsert"
    /\ connections' = connections \cup {s}
    /\ inserts' = [inserts EXCEPT ![s] = @ + 1]
    /\ pc' = [pc EXCEPT ![s] = "secondUnlock"]
    /\ UNCHANGED <<mvars, mu, req, reqHeader, ret, nextCalls, nextRet, dials,
                   upgrades, advertised, err, conn, errCh, firstErr, rvars, hvars, pvars>>

\* m.mu.Unlock(), then the backend URL and headers are built
SecondUnlock(s) ==
    /\ pc[s] = "secondUnlock"
    /\ mu' = "free"
    /\ reqHeader' = [reqHeader EXCEPT ![s] = StripHeaders(req[s].hdr, SecondStrippedHeaders)]
    /\ pc' = [pc EXCEPT ![s] = "secondDial"]
    /\ UNCHANGED <<mvars, connections, req, ret, nextCalls, nextRet, dials,
                   upgrades, advertised, inserts, err, conn, errCh, firstErr,
                   rvars, hvars, pvars>>

\* websocket.DefaultDialer.Dial(backendURL, reqHeader): on failure the client
\* connection is closed and the error returned.
SecondDial(s) ==
    /\ pc[s] = "secondDial"
    /\ dials' = [dials EXCEPT ![s] = @ + 1]
    /\ \/ /\ conn' = [conn EXCEPT ![s]["client"] = Close(@)]
          /\ ret' = [ret EXCEPT ![s] = "dial error"]
          /\ pc' = [pc EXCEPT ![s] = "returned"]
       \/ \E chosen \in BackendChoices :
             /\ conn' = [conn EXCEPT ![s]["backend"] = NewConn(chosen)]
             /\ pc' = [pc EXCEPT ![s] = "spawnPing"]
             /\ UNCHANGED ret
    /\ UNCHANGED <<mvars, connections, mu, req, reqHeader, nextCalls, nextRet, upgrades,
                   advertised, inserts, err, errCh, firstErr, rvars, hvars, pvars>>

\* ------------------------------------------- liveness acknowledgements
\* The client sends a pong frame (the answer to a probe, or unsolicited).
PeerPong(s) ==
    /\ conn[s]["client"].state = "open"
    /\ ~conn[s]["client"].broken
    /\ pongQuota[s] > 0
    /\ pongQuota' = [pongQuota EXCEPT ![s] = @ - 1]
    /\ pongs' = [pongs EXCEPT ![s] = @ + 1]
    /\ UNCHANGED <<mvars, connections, mu, svars, conn, errCh, firstErr, rvars,
                   hvars, pongLog>>

\* Faulty variant: the pong handler reports an error.
PongHandlerResult_Error(handler) == "error"

\* What the pong handler returns: the handler handlePing installs logs and
\* returns nil, and so does the connection's default handler.
PongHandlerResult(handler) == "nil"

\* A pong frame is read inside clientConn.ReadMessage of the client->backend
\* relay task: the connection's pong handler is invoked; ReadMessage goes on
\* reading when the handler returns nil and returns its error otherwise.
HandlePong(s) ==
    /\ rpc[s]["c2b"] = "read"
    /\ conn[s]["client"].state = "open"
    /\ pongs[s] > 0
    /\ pongs' = [pongs EXCEPT ![s] = @ - 1]
    /\ pongLog' = [pongLog EXCEPT ![s] = Append(@, pongHandler[s])]
    /\ rpc' = [rpc EXCEPT ![s]["c2b"] =
                  IF PongHandlerResult(pongHandler[s]) = "nil" THEN "read"
                  ELSE "sendReadErr"]
    /\ UNCHANGED <<mvars, connections, mu, svars, conn, errCh, firstErr,
                   cur, inbox, readLog, outbox, msgQuota, hvars, pongQuota>>

\* ------------------------------------------------------ the specifications
\* Spawning, join, relay, heartbeat and environment: common to both copies.
Common ==
    \/ Provision
    \/ \E s \in AllSessions :
          \/ PassThrough(s)
          \/ SpawnPing(s) \/ SpawnC2B(s) \/ SpawnB2C(s)
          \/ Recv(s) \/ CloseClient(s) \/ CloseBackend(s)
          \/ LockDelete(s) \/ Delete(s) \/ UnlockDelete(s) \/ Return(s)
          \/ SetPongHandler(s) \/ Tick(s)
          \/ \E d \in Dirs : RelayRead(s, d) \/ RelayWrite(s, d) \/ RelaySend(s, d)
          \/ \E e \in Ends : PeerSend(s, e) \/ PeerFail(s, e)

\* The first copy of the handler.
Next ==
    \/ Common
    \/ \E s \in AllSessions :
          \/ Accept(s) \/ Dial(s) \/ Upgrade(s) \/ CheckSubprotocol(s)
          \/ MismatchClose(s) \/ MismatchReturn(s)
          \/ Lock(s) \/ Insert(s) \/ Unlock(s)

Spec == Init /\ [][Next]_vars

\* The second copy of the handler.
NextSecond ==
    \/ Common
    \/ \E s \in AllSessions :
          \/ SecondAccept(s) \/ SecondUpgrade(s)
          \/ SecondLock(s) \/ SecondInsert(s) \/ SecondUnlock(s) \/ SecondDial(s)

SpecSecond == Init /\ [][NextSecond]_vars

\* Provisioning and admission, over every configuration.
NextProvision ==
    \/ Provision
    \/ \E s \in AllSessions : PassThrough(s) \/ Accept(s)

SpecProvision == InitAnyConfig /\ [][NextProvision]_vars

\* Bounds of SpecPong: the data messages and the pong frames of the session.
PongMsgs == 1
MaxPongs == 1

\* The README configuration, one session whose client also sends pong frames.
InitPong ==
    /\ Interval = "15s"
    /\ origInterval = Interval
    /\ BackendHost = "backend.example.com"
    /\ BackendPaths = <<"/ws", "/chat">>
    /\ live = {"s1"}
    /\ msgQuota = [s \in AllSessions |-> PongMsgs]
    /\ pongQuota = [s \in AllSessions |-> MaxPongs]
    /\ InitSessions

\* The first copy of the handler with a client that sends pong frames.
NextPong ==
    \/ Next
    \/ \E s \in AllSessions : PeerPong(s) \/ HandlePong(s)

SpecPong == InitPong /\ [][NextPong]_vars

\* The README configuration and two invocations of ServeHTTP running
\* concurrently on the one handler instance; the peers send no data and the
\* sessions end before the first tick of their heartbeat.
InitConc ==
    /\ Interval = "15s"
    /\ origInterval = Interval
    /\ BackendHost = "backend.example.com"
    /\ BackendPaths = <<"/ws", "/chat">>
    /\ live = AllSessions
    /\ msgQuota = [s \in AllSessions |-> 0]
    /\ pongQuota = [s \in AllSessions |-> 0]
    /\ InitSessions

\* The steps of ServeHTTP and of the relay tasks that can be taken when no
\* data is sent.
NextMutex ==
    \/ Provision
    \/ \E s \in AllSessions :
          \/ Accept(s) \/ Dial(s) \/ Upgrade(s) \/ CheckSubprotocol(s)
          \/ MismatchClose(s) \/ MismatchReturn(s)
          \/ Lock(s) \/ Insert(s) \/ Unlock(s)
          \/ SpawnPing(s) \/ SpawnC2B(s) \/ SpawnB2C(s)
          \/ Recv(s) \/ CloseClient(s) \/ CloseBackend(s)
          \/ LockDelete(s) \/ Delete(s) \/ UnlockDelete(s) \/ Return(s)
          \/ \E d \in Dirs : RelayRead(s, d) \/ RelaySend(s, d)
          \/ \E e \in Ends : PeerFail(s, e)

\* The same with the heartbeat task up to its wait for the first tick.
NextConc ==
    \/ NextMutex
    \/ \E s \in AllSessions : SetPongHandler(s)

SpecConc == InitConc /\ [][NextConc]_vars

\* sync.Mutex and the scheduler: a goroutine that holds the mutex goes on to
\* release it, and a goroutine waiting in Lock gets the mutex once it stays
\* free.
FairnessConc ==
    \A s \in AllSessions :
       /\ WF_vars(Lock(s)) /\ WF_vars(Insert(s)) /\ WF_vars(Unlock(s))
       /\ WF_vars(LockDelete(s)) /\ WF_vars(Delete(s)) /\ WF_vars(UnlockDelete(s))

SpecMutex == InitConc /\ [][NextMutex]_vars /\ FairnessConc

\* ================================================================ claims
Upgraded(s) == conn[s]["client"].state # "none"
Dialed(s) == conn[s]["backend"].state # "none"
BothClosed(s) == conn[s]["client"].state = "closed" /\ conn[s]["backend"].state = "closed"
NoTaskStarted(s) == hpc[s] = "unstarted" /\ \A d \in Dirs : rpc[s][d] = "unstarted"
RelayPhase(s) == \E d \in Dirs : rpc[s][d] # "unstarted"

\* The request is no upgrade request, or its path equals no allow-list entry.
Ineligible(r) ==
    \/ <<"Connection", "upgrade">> \notin r.hdr
    \/ <<"Upgrade", "websocket">> \notin r.hdr
    \/ \A i \in 1..Len(BackendPaths) : BackendPaths[i] # r.path

C1_State ==
    \A s \in AllSessions :
       (pc[s] # "idle" /\ Ineligible(req[s])) =>
          /\ pc[s] = "returned"
          /\ nextCalls[s] = 1
          /\ ret[s] = nextRet[s] /\ ret[s] \in NextResults
          /\ dials[s] = 0 /\ upgrades[s] = 0
          /\ ~Dialed(s) /\ ~Upgraded(s)
          /\ NoTaskStarted(s)
          /\ inserts[s] = 0 /\ s \notin connections

C1_Step ==
    \A s \in AllSessions :
       (pc[s] = "idle" /\ pc'[s] # "idle" /\ Ineligible(req'[s])) =>
          /\ connections' = connections /\ mu' = mu
          /\ conn' = conn /\ errCh' = errCh
          /\ hpc' = hpc /\ rpc' = rpc

\* C1: a request that is no upgrade request, or whose path is not on the
\* allow-list, is handed to the next handler exactly once and the next
\* handler's result is returned; nothing is dialed, upgraded, spawned or
\* registered, and the step leaves the registry and every connection unchanged.
C1_PassThrough == []C1_State /\ [][C1_Step]_vars

\* An upgrade request for a path that is not listed was passed through.
C1_Witness ==
    \E s \in AllSessions :
       /\ pc[s] = "returned" /\ nextCalls[s] = 1
       /\ IsWebSocketUpgrade(req[s]) /\ req[s].path = "/metrics"
       /\ ret[s] = "next: error"

\* C2: when the backend dial of an eligible request fails, ServeHTTP returns
\* the dial error, no client-facing upgrade was attempted, no task was
\* spawned, and the client connection is not (and never was) in the registry.
C2_DialFailure ==
    \A s \in AllSessions :
       ret[s] = "dial error" =>
          /\ upgrades[s] = 0 /\ ~Upgraded(s)
          /\ NoTaskStarted(s)
          /\ inserts[s] = 0 /\ s \notin connections

\* C3: when the client side resolved another subprotocol than the backend
\* selected, the session is never registered and none of its tasks starts;
\* ServeHTTP returns the mismatch error, and only with both connections closed.
C3_Mismatch ==
    \A s \in AllSessions :
       (Upgraded(s) /\ conn[s]["client"].sub # conn[s]["backend"].sub) =>
          /\ inserts[s] = 0 /\ s \notin connections
          /\ NoTaskStarted(s)
          /\ pc[s] \in {"check", "mismatch", "mismatchReturn", "returned"}
          /\ pc[s] \in {"mismatchReturn", "returned"} => BothClosed(s)
          /\ pc[s] = "returned" => ret[s] = "subprotocol mismatch"
          /\ pc[s] # "returned" => ret[s] = ""

\* The backend selected chat.v2, the client had offered nothing: mismatch.
C3_Witness ==
    \E s \in AllSessions :
       /\ ret[s] = "subprotocol mismatch"
       /\ conn[s]["backend"].sub = "chat.v2" /\ conn[s]["client"].sub = ""
       /\ BothClosed(s)

\* The positions of ServeHTTP between the insertion and the removal.
Registered(s) ==
    pc[s] \in {"unlock", "spawnPing", "spawnC2B", "spawnB2C", "recv",
               "closeClient", "closeBackend", "lockDelete", "delete"}

\* C4 as stated: the client connection is in the registry from the success of
\* the client-facing upgrade until the removal, and never outside that window.
C4_FromUpgrade ==
    \A s \in AllSessions :
       /\ (Upgraded(s) /\ pc[s] \notin {"unlockDelete", "return", "returned"})
             => s \in connections
       /\ s \in connections => Upgraded(s) /\ pc[s] # "returned"
       /\ inserts[s] <= 1

\* C4 (amended): the client connection is in the registry at every moment
\* from its insertion (which follows the successful upgrade and the passed
\* subprotocol check) until its removal in the teardown, and at no other
\* moment; it is inserted at most once and is not in the registry after
\* ServeHTTP returned.
C4_RegistryWindow ==
    \A s \in AllSessions :
       /\ s \in connections <=> Registered(s)
       /\ s \in connections =>
             Upgraded(s) /\ conn[s]["client"].sub = conn[s]["backend"].sub
       /\ inserts[s] <= 1
       /\ pc[s] = "returned" => s \notin connections

\* A session that was registered has returned and left the registry.
C4_Witness ==
    \E s \in AllSessions :
       pc[s] = "returned" /\ inserts[s] = 1 /\ s \notin connections

\* q is p, or p without its last element.
AllButLast(q, p) ==
    /\ Len(p) - Len(q) \in {0, 1}
    /\ \A i \in 1..Len(q) : q[i] = p[i]

C6_Join ==
    \A s \in AllSessions :
       /\ pc[s] \in {"closeClient", "closeBackend", "lockDelete", "delete",
                     "unlockDelete", "return"}
             => /\ firstErr[s] \in RelayErrors
                /\ err[s] = firstErr[s]
       /\ pc[s] \in {"closeClient", "closeBackend", "lockDelete"} => s \in connections
       /\ pc[s] \in {"lockDelete", "delete", "unlockDelete", "return"} => BothClosed(s)
       /\ pc[s] \in {"unlockDelete", "return"} => s \notin connections
       /\ (RelayPhase(s) /\ pc[s] # "returned") => ret[s] = ""
       /\ (RelayPhase(s) /\ pc[s] = "returned")
             => /\ firstErr[s] \in RelayErrors
                /\ ret[s] = firstErr[s]
                /\ BothClosed(s)
                /\ s \notin connections

\* Both relay tasks reported; the first error was returned, the second stays
\* in the channel.
C6_Witness ==
    \E s \in AllSessions :
       /\ pc[s] = "returned" /\ RelayPhase(s)
       /\ Len(errCh[s]) = 1 /\ errCh[s][1] # ret[s]
       /\ ret[s] = firstErr[s]

\* C7: the client-facing upgrade advertises exactly [P] when the backend
\* selected P and nothing when it selected none; whenever a session is
\* registered or relaying, both connections have the same subprotocol.
C7_Subprotocol ==
    \A s \in AllSessions :
       /\ upgrades[s] > 0 =>
             advertised[s] = IF conn[s]["backend"].sub # ""
                             THEN <<conn[s]["backend"].sub>> ELSE <<>>
       /\ (s \in connections \/ RelayPhase(s) \/ hpc[s] # "unstarted")
             => conn[s]["client"].sub = conn[s]["backend"].sub

\* chat.v1 and chat.v2 offered, chat.v2 selected by the backend and resolved
\* on the client side: the session relays.
C7_Witness ==
    \E s \in AllSessions :
       /\ OfferedByClient(req[s]) = <<"chat.v1", "chat.v2">>
       /\ advertised[s] = <<"chat.v2">>
       /\ conn[s]["client"].sub = "chat.v2"
       /\ s \in connections /\ RelayPhase(s)

\* C8: every tick received leads to one probe attempt, and the heartbeat loop
\* ends only on a probe that failed; on a client connection that accepts
\* writes (no broken transport, no missed deadline) it ends only once the
\* connection has been closed.
C8_Heartbeat ==
    \A s \in AllSessions :
       /\ probes[s] = ticks[s]
       /\ hpc[s] = "done" => lastProbe[s] \in {"closed", "broken", "timeout"}
       /\ hpc[s] \in {"unstarted", "setPong"} => probes[s] = 0
       /\ (hpc[s] = "done" /\ lastProbe[s] \notin {"broken", "timeout"})
             => conn[s]["client"].state = "closed"

\* Two probes were sent on an open connection and the loop still runs.
C8_Witness ==
    \E s \in AllSessions :
       /\ probes[s] >= 2 /\ lastProbe[s] = "ok" /\ hpc[s] = "loop"
       /\ conn[s]["client"].state = "open"

\* The interval Provision validates: the configured one, or the default.
C9_Effective == IF origInterval = "" THEN "15s" ELSE origInterval

C9_BadConfig ==
    \/ ~ParseDuration(C9_Effective).ok
    \/ ParseDuration(C9_Effective).dur <= 0
    \/ BackendHost = ""
    \/ BackendPaths = <<>>

\* C9: Provision returns an error, and leaves the registry uninitialised and
\* the handler out of service, exactly when the interval cannot be parsed or
\* is <= 0, the host is empty or the allow-list is empty; an empty interval
\* is replaced by 15s before it is validated; when Provision succeeds the
\* interval is > 0, the host and the allow-list are non-empty and the
\* registry is initialised.
C9_Provision ==
    /\ provisioned = "not called" => connectionsNil
    /\ provisioned # "not called" =>
          /\ (provisioned # "nil") <=> C9_BadConfig
          /\ Interval = C9_Effective
          /\ connectionsNil <=> (provisioned # "nil")
          /\ provisioned = "nil" =>
                /\ intervalDuration = ParseDuration(C9_Effective).dur
                /\ intervalDuration > 0
                /\ BackendHost # "" /\ Len(BackendPaths) > 0
    /\ provisioned # "nil" => \A s \in AllSessions : pc[s] = "idle"

\* An interval of zero was refused although host and allow-list were given.
C9_Witness ==
    /\ origInterval = "0s" /\ provisioned = "invalid interval"
    /\ BackendHost # "" /\ BackendPaths # <<>>
    /\ connectionsNil

C10_Step ==
    \A s \in AllSessions :
       /\ (hpc[s] = "loop" /\ hpc'[s] = "done") =>
             /\ conn' = conn /\ connections' = connections /\ mu' = mu
             /\ errCh' = errCh /\ firstErr' = firstErr
             /\ pc' = pc /\ ret' = ret /\ rpc' = rpc
       /\ hpc[s] = "done" => hpc'[s] = "done" /\ probes'[s] = probes[s]

C10_State ==
    \A s \in AllSessions :
       /\ \A i \in 1..Len(errCh[s]) : errCh[s][i] \in RelayErrors
       /\ (RelayPhase(s) /\ pc[s] = "returned") => ret[s] \in RelayErrors

\* C10: the step on which a probe fails ends the heartbeat loop and changes
\* nothing else: no connection is closed, the registry and the error channel
\* are untouched and ServeHTTP does not move; the loop never resumes; only
\* relay errors reach the error channel and end a session.
C10_ProbeFailure == []C10_State /\ [][C10_Step]_vars

\* The heartbeat ended on a missed deadline while the session goes on.
C10_Witness ==
    \E s \in AllSessions :
       /\ hpc[s] = "done" /\ lastProbe[s] = "timeout"
       /\ pc[s] = "recv" /\ errCh[s] = <<>>
       /\ conn[s]["client"].state = "open" /\ conn[s]["backend"].state = "open"
       /\ s \in connections


TaskStarted(s) == hpc[s] # "unstarted" \/ RelayPhase(s)
AllTasksDone(s) == hpc[s] = "done" /\ \A d \in Dirs : rpc[s][d] = "done"
AfterRemoval(s) == pc[s] \in {"unlockDelete", "return", "returned"}

\* C11 as stated: every task of a session starts after the client connection
\* was added to the registry and has terminated before it is removed, so no
\* task runs at or after the removal or after ServeHTTP returned.
C11_Brackets ==
    \A s \in AllSessions :
       /\ TaskStarted(s) => inserts[s] = 1
       /\ (TaskStarted(s) /\ AfterRemoval(s)) => AllTasksDone(s)

\* C11 (amended): every task of a session starts only after the client
\* connection was added to the registry; the removal and the return come only
\* after one relay task has reported its error and terminated (the other
\* relay task and the heartbeat task are not waited for).
C11_TaskLifetime ==
    \A s \in AllSessions :
       /\ TaskStarted(s) =>
             /\ inserts[s] = 1
             /\ pc[s] \notin {"idle", "dial", "upgrade", "check", "mismatch",
                              "mismatchReturn", "lock", "insert"}
       /\ RelayPhase(s) => hpc[s] # "unstarted"
       /\ (TaskStarted(s) /\ ~Registered(s)) =>
             /\ AfterRemoval(s)
             /\ \E d \in Dirs : rpc[s][d] = "done"

\* ServeHTTP has returned while the other relay task and the heartbeat run on.
C11_Witness ==
    \E s \in AllSessions :
       /\ pc[s] = "returned" /\ s \notin connections
       /\ rpc[s]["c2b"] = "done" /\ rpc[s]["b2c"] = "read"
       /\ hpc[s] = "loop"


\* ------------------------------------------------------------- scheduling
\* The Go scheduler runs every goroutine that can take a step, and the ticker
\* keeps delivering ticks: each step of ServeHTTP, of the relay tasks and of
\* the heartbeat task is taken if it stays possible.  The peers owe nothing.
Fairness ==
    \A s \in AllSessions :
       /\ WF_vars(Recv(s)) /\ WF_vars(CloseClient(s)) /\ WF_vars(CloseBackend(s))
       /\ WF_vars(LockDelete(s)) /\ WF_vars(Delete(s)) /\ WF_vars(UnlockDelete(s))
       /\ WF_vars(Return(s))
       /\ WF_vars(SetPongHandler(s)) /\ WF_vars(Tick(s))
       /\ \A d \in Dirs :
             WF_vars(RelayRead(s, d)) /\ WF_vars(RelayWrite(s, d)) /\ WF_vars(RelaySend(s, d))

\* Messages the two peers of the session may send under SpecFair.
FairMsgs == 1

\* The README configuration, one session, FairMsgs messages.
InitFair ==
    /\ Interval = "15s"
    /\ origInterval = Interval
    /\ BackendHost = "backend.example.com"
    /\ BackendPaths = <<"/ws", "/chat">>
    /\ live = {"s1"}
    /\ msgQuota = [s \in AllSessions |-> FairMsgs]
    /\ pongQuota = [s \in AllSessions |-> 0]
    /\ InitSessions

\* The first copy of the handler under fair scheduling.
SpecFair == InitFair /\ [][Next]_vars /\ Fairness


C12_State ==
    \A s \in AllSessions :
       /\ \A d \in Dirs :
             rpc[s][d] \in {"sendReadErr", "sendWriteErr"} => Len(errCh[s]) < 2
       /\ Len(errCh[s]) + (IF err[s] # "" THEN 1 ELSE 0)
             = Cardinality({ d \in Dirs : rpc[s][d] = "done" })
       /\ Len(errCh[s]) <= 2

C12_Terminates ==
    \A s \in AllSessions : \A d \in Dirs :
       (BothClosed(s) /\ rpc[s][d] \notin {"unstarted", "done"}) ~> (rpc[s][d] = "done")

\* C12: once ServeHTTP has closed both connections, each relay task that is
\* still running meets a read or write error and terminates; each relay task
\* sends one error at most, and a relay task about to send always finds room
\* in the channel of capacity 2, also for the error that is never received.
C12_SecondRelay == []C12_State /\ C12_Terminates

\* Both relay tasks have terminated; the second error stays in the channel.
C12_Witness ==
    \E s \in AllSessions :
       /\ BothClosed(s) /\ err[s] # ""
       /\ \A d \in Dirs : rpc[s][d] = "done"
       /\ Len(errCh[s]) = 1 /\ errCh[s][1] # err[s]

C13_Step ==
    \A s \in AllSessions :
       (probes'[s] # probes[s] /\ lastProbe'[s] = "ok") =>
          conn[s]["client"].state = "open"

C13_Terminates ==
    \A s \in AllSessions :
       (conn[s]["client"].state = "closed" /\ hpc[s] \in {"setPong", "loop"})
          ~> (hpc[s] = "done")

ProbeFailed(s) == lastProbe[s] \in {"closed", "broken", "timeout"}

C14_State ==
    \A s \in AllSessions : ProbeFailed(s) => hpc[s] = "done"

C14_Step ==
    \A s \in AllSessions :
       /\ ProbeFailed(s) =>
             /\ hpc'[s] = "done"
             /\ probes'[s] = probes[s] /\ ticks'[s] = ticks[s]
             /\ lastProbe'[s] = lastProbe[s]
       /\ (hpc[s] # "unstarted" /\ hpc'[s] # hpc[s]) => hpc'[s] \in {"loop", "done"}

\* C14: a failed probe send is the heartbeat's terminal transition: the loop
\* has stopped as soon as a probe failed, the task is never started again and
\* no further probe is attempted for the session, also while the client
\* connection stays open and the relay tasks go on.
C14_NoRestart == []C14_State /\ [][C14_Step]_vars

\* The only probe missed its deadline; both connections are open and the
\* relay tasks still carry messages.
C14_Witness ==
    \E s \in AllSessions :
       /\ hpc[s] = "done" /\ lastProbe[s] = "timeout" /\ probes[s] = 1
       /\ \A e \in Ends : conn[s][e].state = "open" /\ ~conn[s][e].broken
       /\ \A d \in Dirs : rpc[s][d] = "read"
       /\ Len(outbox[s]["client"]) = 1 /\ inbox[s]["client"] # <<>>


\* The state of a session that a disconnect or a teardown would change.
SessionState(s) ==
    <<pc[s], ret[s], err[s], conn[s], s \in connections, mu, errCh[s], firstErr[s],
      rpc[s], cur[s], hpc[s], pongHandler[s], probes[s], lastProbe[s]>>

C15_Step ==
    \A s \in AllSessions :
       (pongs'[s] # pongs[s] \/ pongLog'[s] # pongLog[s]) =>
          SessionState(s)' = SessionState(s)

C15_State ==
    \A s \in AllSessions :
       /\ rpc[s]["c2b"] = "sendReadErr" => Unusable(conn[s]["client"])
       /\ rpc[s]["b2c"] = "sendReadErr" => Unusable(conn[s]["backend"])
       /\ conn[s]["client"].state = "closed" =>
             \/ firstErr[s] \in RelayErrors
             \/ conn[s]["client"].sub # conn[s]["backend"].sub

\* C15: neither the arrival nor the handling of a liveness acknowledgement
\* changes any session state, and nothing depends on acknowledgements being
\* absent: a relay read fails only on a closed or broken connection, and the
\* client connection is closed only after a relay error (or on a subprotocol
\* mismatch), whatever the client acknowledged.
C15_Acknowledgements == []C15_State /\ [][C15_Step]_vars

\* Two probes were sent, one acknowledgement was handled, none is pending
\* for the other probe: the session goes on.
C15_Witness ==
    \E s \in AllSessions :
       /\ probes[s] = 2 /\ lastProbe[s] = "ok" /\ hpc[s] = "loop"
       /\ Len(pongLog[s]) = 1 /\ pongs[s] = 0 /\ pongQuota[s] = 0
       /\ pc[s] = "recv" /\ s \in connections
       /\ \A e \in Ends : conn[s][e].state = "open"


\* The invocation reached the dial: the request was eligible.
PastAccept(s) == pc[s] # "idle" /\ nextCalls[s] = 0

C16_State ==
    \A s \in AllSessions :
       /\ dials[s] <= 1 /\ upgrades[s] <= 1
       /\ PastAccept(s) => dials[s] = (IF pc[s] = "dial" THEN 0 ELSE 1)
       /\ upgrades[s] = 1 => dials[s] = 1 /\ pc[s] \notin {"dial", "upgrade"}
       /\ Dialed(s) => dials[s] = 1
       /\ Upgraded(s) => upgrades[s] = 1
       /\ (dials[s] = 1 /\ ~Dialed(s)) =>
             pc[s] = "returned" /\ ret[s] = "dial error" /\ upgrades[s] = 0
       /\ (upgrades[s] = 1 /\ ~Upgraded(s)) =>
             pc[s] = "returned" /\ ret[s] = "upgrade error"

C16_Step ==
    \A s \in AllSessions :
       /\ dials'[s] # dials[s] => pc[s] = "dial" /\ pc'[s] \in {"upgrade", "returned"}
       /\ upgrades'[s] # upgrades[s] => pc[s] = "upgrade" /\ pc'[s] \in {"check", "returned"}

\* C16: an invocation for an eligible request dials the backend exactly once
\* and upgrades the client at most once; a failed dial or upgrade is the
\* invocation's last step and its error is the return value, so nothing is
\* retried and at most one connection per side exists.
C16_NoRetry == []C16_State /\ [][C16_Step]_vars

\* The dial failed: one attempt, no connection, the error returned.
C16_Witness ==
    \E s \in AllSessions :
       /\ pc[s] = "returned" /\ ret[s] = "dial error"
       /\ dials[s] = 1 /\ upgrades[s] = 0 /\ ~Dialed(s) /\ ~Upgraded(s)

\* The steps of ServeHTTP that close a connection.
ClosingSteps == {"upgrade", "mismatch", "closeClient", "closeBackend"}

C17_State ==
    \A s \in AllSessions : \A e \in Ends :
       /\ conn[s][e].closes <= 1
       /\ conn[s][e].closes = 1 <=> conn[s][e].state = "closed"
       /\ pc[s] = "returned" => conn[s][e].state # "open"

C17_Step ==
    \A s \in AllSessions : \A e \in Ends :
       conn'[s][e].closes # conn[s][e].closes =>
          /\ pc[s] \in ClosingSteps /\ pc'[s] # pc[s]
          /\ rpc'[s] = rpc[s] /\ hpc'[s] = hpc[s]

\* C17: a connection is closed only by a step of ServeHTTP, never by a step
\* of a relay or heartbeat task; no connection is closed twice, and when
\* ServeHTTP has returned every connection it opened is closed.
C17_SoleCloser == []C17_State /\ [][C17_Step]_vars

\* A session was torn down after a probe failure and a relay error: both
\* connections closed once, by ServeHTTP.
C17_Witness ==
    \E s \in AllSessions :
       /\ pc[s] = "returned" /\ hpc[s] = "done"
       /\ \A d \in Dirs : rpc[s][d] = "done"
       /\ \A e \in Ends : conn[s][e].state = "closed" /\ conn[s][e].closes = 1

\* C18: when the upgrade fails after a successful dial, the backend
\* connection is closed, the upgrade error is returned, the registry was
\* never written and no task was started.
C18_UpgradeFailure ==
    \A s \in AllSessions :
       ret[s] = "upgrade error" =>
          /\ pc[s] = "returned"
          /\ conn[s]["backend"].state = "closed" /\ conn[s]["backend"].closes = 1
          /\ conn[s]["client"] = NoConn
          /\ inserts[s] = 0 /\ s \notin connections
          /\ NoTaskStarted(s)
          /\ errCh[s] = <<>> /\ probes[s] = 0

C18_Witness ==
    \E s \in AllSessions :
       /\ ret[s] = "upgrade error" /\ dials[s] = 1 /\ upgrades[s] = 1
       /\ conn[s]["backend"].state = "closed" /\ connections = {}


\* The positions of ServeHTTP between a Lock and its Unlock: the next step
\* there is the map insertion, the map deletion or the Unlock itself.
Critical == {"insert", "unlock", "delete", "unlockDelete"}

C19_State ==
    /\ \A s \in AllSessions : mu = s <=> pc[s] \in Critical
    /\ \A s, t \in AllSessions : (pc[s] \in Critical /\ pc[t] \in Critical) => s = t
    /\ \A s \in AllSessions : inserts[s] <= 1
    /\ \A s \in AllSessions : pc[s] = "insert" => NoTaskStarted(s)

C19_Step ==
    /\ connections' # connections =>
          \E s \in AllSessions :
             /\ mu = s /\ mu' = s
             /\ pc[s] \in {"insert", "delete"} /\ pc'[s] \in {"unlock", "unlockDelete"}
    /\ \A s \in AllSessions :
          (mu = s /\ mu' = s /\ pc'[s] # pc[s]) => connections' # connections

C19_Live ==
    \A s \in AllSessions :
       /\ pc[s] = "lock" ~> pc[s] = "insert"
       /\ pc[s] = "lockDelete" ~> pc[s] = "delete"

\* C19: the mutex is held exactly while ServeHTTP is between a Lock and its
\* Unlock, where its only step besides the Unlock is the one map insertion
\* or the one map deletion; two sessions are never there together, the
\* registry changes only in a step of the holder, and a session waiting for
\* the mutex gets it.
C19_Mutex == []C19_State /\ [][C19_Step]_vars /\ C19_Live

\* One session holds the mutex for its deletion while the other one waits
\* for its insertion.
C19_Witness ==
    \E s, t \in AllSessions :
       /\ pc[s] = "delete" /\ mu = s
       /\ pc[t] = "lock" /\ t \notin connections

\* What belongs to one session: its invocation, connections, registry entry,
\* error channel and tasks.
Own(s) ==
    <<pc[s], ret[s], err[s], conn[s], s \in connections, errCh[s], firstErr[s],
      rpc[s], hpc[s]>>

C20_State ==
    connections =
       {s \in AllSessions :
          pc[s] \in {"unlock", "spawnPing", "spawnC2B", "spawnB2C", "recv",
                     "closeClient", "closeBackend", "lockDelete", "delete"}}

C20_Step ==
    \A s, t \in AllSessions : (s # t /\ Own(s)' # Own(s)) => Own(t)' = Own(t)

\* C20: with concurrent sessions the registry is exactly the set of sessions
\* between their insertion and their deletion, and a step that changes
\* anything of one session (a close, a registry write, an error sent or
\* received, a return) changes nothing of another one.
C20_Isolation == []C20_State /\ [][C20_Step]_vars

\* One session was torn down and has returned while the other one is still
\* registered, with both connections open and no error delivered.
C20_Witness ==
    \E s, t \in AllSessions :
       /\ pc[s] = "returned" /\ inserts[s] = 1 /\ BothClosed(s) /\ s \notin connections
       /\ pc[t] = "recv" /\ connections = {t} /\ errCh[t] = <<>>
       /\ \A e \in Ends : conn[t][e].state = "open" /\ ~conn[t][e].broken


\* C21: the handler that handlePing installs is in place before the
\* client->backend relay task can read a frame, so every acknowledgement
\* that is handled is handled by it.
C21_HandlerInstalled ==
    \A s \in AllSessions :
       /\ rpc[s]["c2b"] # "unstarted" => pongHandler[s] = "logging"
       /\ \A i \in 1..Len(pongLog[s]) : pongLog[s][i] = "logging"


\* The six upgrade-specific header names.
UpgradeSpecific ==
    {"Sec-WebSocket-Version", "Sec-WebSocket-Key", "Sec-WebSocket-Extensions",
     "Sec-WebSocket-Protocol", "Connection", "Upgrade"}

\* C22: the headers passed to the backend dial are the inbound request's
\* headers without the six upgrade-specific ones, none of which is
\* forwarded, and the inbound request still carries its own upgrade headers.
C22_DialHeaders ==
    \A s \in AllSessions :
       dials[s] >= 1 =>
          /\ reqHeader[s] = { h \in req[s].hdr : h[1] \notin UpgradeSpecific }
          /\ \A h \in reqHeader[s] : h[1] \notin UpgradeSpecific
          /\ <<"Connection", "upgrade">> \in req[s].hdr
          /\ <<"Upgrade", "websocket">> \in req[s].hdr

====
